---- MODULE Spec2Model ----
(***************************************************************************)
(* Model of the reconciliation engine of sync-to-tracker                   *)
(* (src/sync-to-tracker/sync-to-tracker.py) together with the part of the  *)
(* tracker adapter it drives (src/sync-to-tracker/adapters/monday.py).     *)
(*                                                                         *)
(* A pass (sync or resync, dry-run or not) is one run of the CLI: a single  *)
(* sequential process, so one action of the model.  Each adapter call of   *)
(* a pass can raise, and the exception ends the process on the spot.       *)
(***************************************************************************)
EXTENDS Integers, Sequences, FiniteSets, TLC

\* ------------------------------------------------------------------ bounds

\* The tracker hands out at most MaxFresh new item ids in one behaviour.
MaxFresh == 3

\* ISSUE-1 and ISSUE-2: the ids a document or the store can hold.
IssueIds == {1, 2}

\* ------------------------------------------------------- document contents

\* The status strings a document's **Status:** field holds in the model: one
\* of the five known ones and one the table does not know.
DocStatuses == {"Done", "Blocked"}

\* The texts extract_human_summary yields for the blocks of the model: the
\* empty string (a block with no prose and no criteria) and one text.
Summaries == {"", "Build login page"}

\* The text of a block as it was at an earlier sync.
EarlierSummaries == {"Build login"}

NORMALIZED_STATUSES ==
    [s \in {"Backlog", "Ready", "In Progress", "In Review", "Done"} |->
        CASE s = "Backlog" -> "backlog"
          [] s = "Ready" -> "ready"
          [] s = "In Progress" -> "in_progress"
          [] s = "In Review" -> "in_review"
          [] s = "Done" -> "done"]

\* Faulty variant: a status the table does not know is passed on as it is.
NormalizeKnownOnly(status) ==
    IF status \in DOMAIN NORMALIZED_STATUSES THEN NORMALIZED_STATUSES[status] ELSE status

\* NORMALIZED_STATUSES.get(issue["status"], "backlog")
Normalize(status) ==
    IF status \in DOMAIN NORMALIZED_STATUSES THEN NORMALIZED_STATUSES[status]
    ELSE "backlog"

\* hashlib.md5(text.encode()).hexdigest()[:12] on the texts of the model.
Md5Prefix(text) ==
    CASE text = "Build login" -> "8359113100af"
      [] text = "Build login page" -> "c78d98826be9"
      [] OTHER -> "d41d8cd98f00"

\* _hash: the digest of a non-empty text, the empty string for the empty text.
Hash(text) == IF text # "" THEN Md5Prefix(text) ELSE ""

\* What dict.get returns for a missing key.
None == "None"

\* An issue record of parse_issues, with raw_block held as the summary
\* extract_human_summary derives from it.  ISSUE-1 comes with every status and
\* summary, ISSUE-2, the issue beside it, with every status.
IssueRecords ==
    [id : {1}, status : DocStatuses, summary : Summaries]
        \cup [id : {2}, status : DocStatuses, summary : {"Build login page"}]

RECURSIVE SeqsUpTo(_, _)
SeqsUpTo(S, n) ==
    IF n = 0 THEN {<<>>}
    ELSE LET shorter == SeqsUpTo(S, n - 1)
         IN  shorter \cup {Append(q, x) : q \in {p \in shorter : Len(p) = n - 1}, x \in S}

\* Every document of at most as many issue blocks as there are ids; the
\* parser does not reject a document that uses one id twice.
Docs == SeqsUpTo(IssueRecords, Cardinality(IssueIds))

Ids(iss) == {iss[k].id : k \in 1..Len(iss)}

UniqueIds(iss) == \A j, k \in 1..Len(iss) : iss[j].id = iss[k].id => j = k

\* --------------------------------------------------------- sync state store

HasHash(item) == "description_hash" \in DOMAIN item

\* tracker_item.get("description_hash")
GetHash(item) == IF HasHash(item) THEN item.description_hash ELSE None

Entry(tid, st, h) == [tracker_id |-> tid, last_status |-> st, description_hash |-> h]

LegacyEntry(tid, st) == [tracker_id |-> tid, last_status |-> st]

\* with description_hash set (state[issue_id]["description_hash"] = h)
WithHash(item, h) == Entry(item.tracker_id, item.last_status, h)

StoredStatuses == {Normalize(s) : s \in DocStatuses}

StoredHashes == {Hash(t) : t \in Summaries \cup EarlierSummaries}

\* The entries the store can hold for issue id at the start of a behaviour:
\* written by an earlier sync (with a hash) or before hashing existed
\* (without).  The item of ISSUE-i was created with tracker id i.  The entry
\* of ISSUE-2 was written by a sync of the text it has now.
InitEntries(id) ==
    IF id = 1
    THEN {Entry(id, st, h) : st \in StoredStatuses, h \in StoredHashes}
            \cup {LegacyEntry(id, st) : st \in StoredStatuses}
    ELSE {Entry(id, st, Hash("Build login page")) : st \in StoredStatuses}

InitStores ==
    UNION {{st \in [D -> UNION {InitEntries(id) : id \in D}] :
                \A id \in D : st[id] \in InitEntries(id)} : D \in SUBSET IssueIds}

\* dict without key k (del state[issue_id])
Without(f, k) == [x \in DOMAIN f \ {k} |-> f[x]]

\* dict with f[k] = v (state[issue_id] = {...})
With(f, k, v) == [x \in DOMAIN f \cup {k} |-> IF x = k THEN v ELSE f[x]]

\* ------------------------------------------------------- the store file

\* The path given on the command line, and the path of another document
\* synced from the same project root.
IssuesFile == "a.issues.md"

OtherFile == "b.issues.md"

Paths == {IssuesFile, OtherFile}

\* .sync-state.json does not exist.
NoStoreFile == [exists |-> FALSE, all_state |-> <<>>]

\* .sync-state.json holds all_state: path -> mapping.
StoreFile(all_state) == [exists |-> TRUE, all_state |-> all_state]

load_sync_state(file, issues_file) ==
    IF ~file.exists THEN <<>>
    ELSE IF issues_file \in DOMAIN file.all_state THEN file.all_state[issues_file]
    ELSE <<>>

\* Faulty variant: the file is written with the mapping of this path alone.
save_sync_state_alone(file, issues_file, state) ==
    StoreFile(With(<<>>, issues_file, state))

save_sync_state(file, issues_file, state) ==
    StoreFile(With(IF file.exists THEN file.all_state ELSE <<>>, issues_file, state))

\* The store files with a mapping for this document alone, or no file.
OwnStoreFiles ==
    {NoStoreFile} \cup {StoreFile(With(<<>>, IssuesFile, st)) : st \in InitStores \ {<<>>}}

\* What the store file holds for the other document, once that one is synced.
OtherMapping == With(<<>>, 1, Entry(9, "done", Hash("Build login page")))

\* The store files of a project root where the other document is synced,
\* with or without a mapping for this one; or no file.
StoreFiles ==
    {NoStoreFile}
        \cup {StoreFile(With(<<>>, OtherFile, OtherMapping))}
        \cup {StoreFile(With(With(<<>>, OtherFile, OtherMapping), IssuesFile, st)) :
                st \in InitStores}

\* ------------------------------------------------------- the configuration

Tokens == {"", "YOUR_MONDAY_API_TOKEN", "secret"}

Boards == {"", "YOUR_BOARD_ID", "1234"}

GoodConfig == [tracker |-> "monday", api_token |-> "secret", board_id |-> "1234"]

\* The contents of .sync-config.json: the Monday adapter with any token and
\* board ("" when the key is missing), the GitHub adapter, no tracker named.
Configs ==
    [tracker : {"monday"}, api_token : Tokens, board_id : Boards]
        \cup {[GoodConfig EXCEPT !.tracker = "github"], [GoodConfig EXCEPT !.tracker = ""]}

\* Faulty variant: the adapter checks nothing when it is constructed.
AdapterUnchecked(cfg) == "none"

\* get_adapter(config): the exception that ends it, "none" when it returns
\* an adapter.
AdapterError(cfg) ==
    IF cfg.tracker = "" THEN "SystemExit"
    ELSE IF cfg.tracker = "github" THEN "NotImplementedError"
    ELSE IF cfg.api_token = "" \/ cfg.api_token = "YOUR_MONDAY_API_TOKEN" THEN "ValueError"
    ELSE IF cfg.board_id = "" \/ cfg.board_id = "YOUR_BOARD_ID" THEN "ValueError"
    ELSE "none"

VARIABLES
    doc,        \* what parse_issues returns for the document as it is on disk
    config,     \* .sync-config.json
    store_file, \* .sync-state.json
    store,      \* what load_sync_state(issues_file) returns for store_file
    remote,     \* the tracker's items: tracker id -> [issue, status, archived]
    fresh,      \* how many items the tracker has created in this behaviour
    pc,         \* how the last pass ended: "idle" (none yet), "done", "aborted"
    mode,       \* the last pass: "sync" or "resync"
    dry_run,    \* the last pass: args.dry_run
    issues,     \* the last pass: the parsed issues
    loaded,     \* the last pass: the mapping it loaded from the store
    state,      \* the last pass: its in-memory mapping when it ended
    tally,      \* the last pass: created, updated, unchanged, archived, skipped
    calls,      \* the last pass: its adapter calls, in order
    report,     \* the last pass: the archived ids, the action of each issue, the lines in order
    prev,       \* the pass before the last one, when the document is unchanged since
    everFailed, \* an adapter call has failed in this behaviour
    content,    \* dev-loop: the lines of the .issues.md file
    before,     \* dev-loop: the lines of the file before the last command
    out         \* dev-loop: the last command of parse-issues.py and how it ended

vars == <<doc, config, store_file, store, remote, fresh, pc, mode, dry_run, issues, loaded, state,
          tally, calls, report, prev, everFailed, content, before, out>>

\* The variables of the dev-loop commands (parse-issues.py).
devVars == <<content, before, out>>

\* The variables of sync-to-tracker.
syncVars == <<doc, config, store_file, store, remote, fresh, pc, mode, dry_run, issues,
              loaded, state, tally, calls, report, prev, everFailed>>

\* ------------------------------------------ dev-loop: the document's text

\* A status value is at most MaxWords words long.
MaxWords == 2

\* A status is the sequence of the words of its text.
Backlog == <<"Backlog">>

Ready == <<"Ready">>

InProgress == <<"In", "Progress">>

InReview == <<"In", "Review">>

Done == <<"Done">>

FiveStatuses == {Backlog, Ready, InProgress, InReview, Done}

\* The lines of a document: "### ISSUE-<id>: <title>", "**Status:** <words>",
\* "**Dependencies:** <ids>", a line of prose, "---", and further down
\* "**Complexity:** <word>", "**Dev notes:** <text>", an empty line.
HeaderLine(id) == [kind |-> "header", id |-> id, words |-> <<>>, deps |-> <<>>]

StatusLine(words) == [kind |-> "status", id |-> 0, words |-> words, deps |-> <<>>]

DepsLine(deps) == [kind |-> "deps", id |-> 0, words |-> <<>>, deps |-> deps]

TextLine == [kind |-> "text", id |-> 0, words |-> <<>>, deps |-> <<>>]

SepLine == [kind |-> "sep", id |-> 0, words |-> <<>>, deps |-> <<>>]

\* The field is not in the block.
NoField == <<"no field">>

\* An issue block: its header, its fields (those it has), a line of prose.
\* A block with no dependencies has no Dependencies line.
Block(id, status, deps) ==
    <<HeaderLine(id)>>
        \o (IF status = NoField THEN <<>> ELSE <<StatusLine(status)>>)
        \o (IF deps = <<>> THEN <<>> ELSE <<DepsLine(deps)>>)
        \o <<TextLine>>

\* The ids a block, a dependency or a command can name.
DevIds == {1, 2}

DevStatuses == FiveStatuses \cup {NoField}

DevBlocks(ids, dependencies) ==
    {Block(id, st, deps) : id \in ids, st \in DevStatuses, deps \in dependencies}

\* The first block is ISSUE-1, with no dependency or depending on ISSUE-2.
FirstBlocks == DevBlocks({1}, {<<>>, <<2>>})

\* The second block is ISSUE-2 or uses the id ISSUE-1 again, with no
\* dependency or depending on ISSUE-1.
SecondBlocks == DevBlocks(DevIds, {<<>>, <<1>>})

\* The documents at the start: one block, or two.  ISSUE-2 is in no block of
\* a document whose blocks all have the id ISSUE-1.
DevDocs == FirstBlocks \cup {a \o <<SepLine>> \o b : a \in FirstBlocks, b \in SecondBlocks}

\* The least of a set of indices, 0 when the set is empty (re.search takes
\* the leftmost match, a for loop returns at the first hit).
First(found) ==
    IF found = {} THEN 0 ELSE CHOOSE k \in found : \A j \in found : k <= j

\* The index of the first line of q after line n that is of the kind.
FirstAfter(q, n, kind) == First({k \in (n + 1)..Len(q) : q[k].kind = kind})

\* The index of the first header line of q for issue_id.
FirstHeader(q, issue_id) ==
    First({k \in 1..Len(q) : q[k].kind = "header" /\ q[k].id = issue_id})

RECURSIVE SplitBlocks(_)
\* re.split(r'\n---\n', content)
SplitBlocks(q) ==
    LET sep == FirstAfter(q, 0, "sep")
    IN  IF sep = 0 THEN <<q>>
        ELSE <<SubSeq(q, 1, sep - 1)>> \o SplitBlocks(SubSeq(q, sep + 1, Len(q)))

\* _extract_field(block, field_name): the line of the first match, 0 for None.
ExtractField(block, kind) == FirstAfter(block, 0, kind)

\* Faulty variant: an omitted field is left empty instead of taking its default.
ParsedIssueNoDefaults(block) ==
    LET title_match == FirstAfter(block, 0, "header")
        status == ExtractField(block, "status")
        deps_raw == ExtractField(block, "deps")
        complexity == ExtractField(block, "complexity")
    IN  [id |-> block[title_match].id,
         status |-> IF status = 0 THEN <<>> ELSE block[status].words,
         dependencies |-> IF deps_raw = 0 THEN <<>> ELSE block[deps_raw].deps,
         complexity |-> IF complexity = 0 THEN <<>> ELSE block[complexity].words]

\* The dict parse_issues appends for a block with a header.
ParsedIssue(block) ==
    LET title_match == FirstAfter(block, 0, "header")
        status == ExtractField(block, "status")
        deps_raw == ExtractField(block, "deps")
        complexity == ExtractField(block, "complexity")
    IN  [id |-> block[title_match].id,
         status |-> IF status = 0 THEN Backlog ELSE block[status].words,
         dependencies |-> IF deps_raw = 0 THEN <<>> ELSE block[deps_raw].deps,
         complexity |-> IF complexity = 0 THEN <<"M">> ELSE block[complexity].words]

RECURSIVE ParseBlocks(_)
\* for block in issue_blocks: a block with no header is passed over.
ParseBlocks(blocks) ==
    IF blocks = <<>> THEN <<>>
    ELSE (IF FirstAfter(Head(blocks), 0, "header") = 0 THEN <<>>
          ELSE <<ParsedIssue(Head(blocks))>>)
            \o ParseBlocks(Tail(blocks))

parse_issues(q) == ParseBlocks(SplitBlocks(q))

\* Faulty variant: a dependency that is in no block counts as done.
DepsDoneOrUnknown(issue, parsed) ==
    \A i \in 1..Len(issue.dependencies) :
        \/ \E k \in 1..Len(parsed) :
                parsed[k].id = issue.dependencies[i] /\ parsed[k].status = Done
        \/ \A k \in 1..Len(parsed) : parsed[k].id # issue.dependencies[i]

\* all(dep in done_ids for dep in issue['dependencies'])
DepsDone(issue, parsed) ==
    LET done_ids == {parsed[k].id : k \in {j \in 1..Len(parsed) : parsed[j].status = Done}}
    IN  \A i \in 1..Len(issue.dependencies) : issue.dependencies[i] \in done_ids

\* find_next_issue(issues): <<issue>>, or <<>> for None.
find_next_issue(parsed) ==
    LET k == First({j \in 1..Len(parsed) :
                        parsed[j].status = Ready /\ DepsDone(parsed[j], parsed)})
    IN  IF k = 0 THEN <<>> ELSE <<parsed[k]>>

\* update_status(filepath, issue_id, new_status).  The pattern matches from
\* the first header of issue_id, over any lines, to the first line after it
\* that starts with **Status:**, and \s*\S+ takes the first word of its value;
\* the substitution puts new_status in the place of that word.  With no match
\* the command exits with 1 and writes nothing.
update_status(q, issue_id, new_status) ==
    LET header == FirstHeader(q, issue_id)
        match == IF header = 0 THEN 0
                 ELSE FirstAfter(q, header, "status")
    IN  IF match = 0 THEN [exit |-> 1, content |-> q]
        ELSE [exit |-> 0,
              content |-> [q EXCEPT ![match].words = new_status \o Tail(@)]]

\* ------------------------------------------------ dev-loop: the dev notes

ComplexityLine(words) == [kind |-> "complexity", id |-> 0, words |-> words, deps |-> <<>>]

\* "**Dev notes:** <words>"; the rest of the line is empty when words = <<>>.
NotesLine(words) == [kind |-> "notes", id |-> 0, words |-> words, deps |-> <<>>]

BlankLine == [kind |-> "blank", id |-> 0, words |-> <<>>, deps |-> <<>>]

\* A line that reads as the words.
NoteText(words) == [kind |-> "text", id |-> 0, words |-> words, deps |-> <<>>]

\* The text the template puts in an unused Dev notes field.
Placeholder == <<"_(filled by dev-loop during implementation)_">>

\* The values of a Dev notes line of a document: none, the placeholder, a note.
NotesValues == {<<>>, Placeholder, <<"old">>}

\* The fields of a block: all omitted, all given, some given.
FieldSets ==
    {[status |-> NoField, deps |-> <<>>, complexity |-> NoField],
     [status |-> Done, deps |-> <<1>>, complexity |-> <<"L">>],
     [status |-> NoField, deps |-> <<1>>, complexity |-> NoField],
     [status |-> Ready, deps |-> <<>>, complexity |-> <<"S">>]}

\* A block with the fields f, the Dev notes line (when has_notes) and an
\* empty line at its end.
NotesBlock(id, f, has_notes, notes) ==
    <<HeaderLine(id)>>
        \o (IF f.status = NoField THEN <<>> ELSE <<StatusLine(f.status)>>)
        \o (IF f.deps = <<>> THEN <<>> ELSE <<DepsLine(f.deps)>>)
        \o (IF f.complexity = NoField THEN <<>> ELSE <<ComplexityLine(f.complexity)>>)
        \o (IF has_notes THEN <<NotesLine(notes)>> ELSE <<>>)
        \o <<BlankLine>>

NotesBlocks(id) ==
    {NotesBlock(id, f, TRUE, notes) : f \in FieldSets, notes \in NotesValues}
        \cup {NotesBlock(id, f, FALSE, <<>>) : f \in FieldSets}

\* The title of the document and its introduction: a block with no header.
Preamble == <<TextLine, BlankLine, SepLine, BlankLine>>

\* Well-formed documents: an optional preamble, then ISSUE-1 alone or
\* ISSUE-1, a separator and ISSUE-2.
NotesDocs ==
    LET body == NotesBlocks(1)
                    \cup {a \o <<SepLine, BlankLine>> \o b :
                            a \in NotesBlocks(1), b \in NotesBlocks(2)}
    IN  body \cup {Preamble \o d : d \in body}

\* update-notes is run at most MaxNotes times on a document.
MaxNotes == 2

\* The text after "**Dev notes:**" on line m, and each later line, is a unit
\* of the text the pattern's second group runs over.  A unit is blank when
\* it holds white space only.
NonBlankUnit(q, m, k) == IF k = m THEN q[m].words # <<>> ELSE q[k].kind # "blank"

Unit(q, m, k) == IF k = m THEN NoteText(q[m].words) ELSE q[k]

\* A line written back with a space before it: " ---" is no separator any
\* more (re.split wants the line to be "---"); a field line is still found
\* by _extract_field.
Indent(line) == IF line.kind = "sep" THEN NoteText(<<"---">>) ELSE line

\* update_dev_notes(filepath, issue_id, notes).  With re.DOTALL the first
\* group runs from the first header of issue_id to the first
\* "**Dev notes:**" after it, in whichever block that is.  \s* then takes
\* the white space that follows, line ends and empty lines included, so the
\* second group starts at the first unit s that is not blank and runs to the
\* line before the first "---" or "###" line after s (or to the end of the
\* file).  existing is that text stripped; the new notes are written in its
\* place, after a space.  With no match a warning is printed and nothing is
\* written.
update_dev_notes(q, issue_id, notes) ==
    LET header == FirstHeader(q, issue_id)
        m == IF header = 0 THEN 0 ELSE FirstAfter(q, header, "notes")
        s == First({k \in m..Len(q) : NonBlankUnit(q, m, k)})
        stop == First({k \in (s + 1)..Len(q) : q[k].kind \in {"sep", "header"}})
        last == IF stop = 0 THEN Len(q) ELSE stop - 1
        e == CHOOSE k \in s..last :
                /\ NonBlankUnit(q, m, k)
                /\ \A j \in (k + 1)..last : ~NonBlankUnit(q, m, j)
        existing == [k \in 1..(e - s + 1) |-> Unit(q, m, s + k - 1)]
        new_notes == IF existing = <<NoteText(Placeholder)>> THEN <<NoteText(notes)>>
                     ELSE Append(existing, NoteText(notes))
    IN  IF m = 0 THEN [match |-> FALSE, content |-> q]
        ELSE IF s = 0 THEN [match |-> TRUE, content |-> Append(q, NoteText(notes))]
        ELSE [match |-> TRUE,
              content |-> SubSeq(q, 1, s - 1)
                            \o <<IF s = m THEN NotesLine(Head(new_notes).words)
                                 ELSE Indent(Head(new_notes))>>
                            \o Tail(new_notes)
                            \o SubSeq(q, last + 1, Len(q))]

\* ------------------------------------------- the summary of an issue block

\* A block has at most MaxBlock lines after its header.
MaxBlock == 4

\* "**Acceptance criteria:**"
AcceptanceLine == [kind |-> "acceptance", id |-> 0, words |-> <<>>, deps |-> <<>>]

\* "- [ ] <words>" or "- [x] <words>": words begins with the box.
CheckboxLine(words) == [kind |-> "checkbox", id |-> 0, words |-> words, deps |-> <<>>]

\* A line that starts with ** and is none of the fields above ("**Notes:** ...").
BoldLine == [kind |-> "bold", id |-> 0, words |-> <<>>, deps |-> <<>>]

\* The lines a block is made of.
SummaryLines ==
    {StatusLine(Ready), NotesLine(<<"old">>), AcceptanceLine,
     CheckboxLine(<<"- [ ]", "works">>), NoteText(<<"prose">>), BlankLine, BoldLine}

\* The raw blocks: the header of ISSUE-1, then up to MaxBlock lines.
SummaryBlocks == {<<HeaderLine(1)>> \o q : q \in SeqsUpTo(SummaryLines, MaxBlock)}

\* The kinds of line that start with one of metadata_prefixes.
metadata_prefixes == {"header", "status", "deps", "complexity", "notes"}

\* stripped.replace('- [x] ', ...).replace('- [ ] ', ...): the box becomes a mark.
Criterion(line) ==
    NoteText(<<IF Head(line.words) = "- [x]" THEN "checked" ELSE "open">> \o Tail(line.words))

\* The locals of extract_human_summary before its loop.
NoSummary == [description_lines |-> <<>>, acceptance_lines |-> <<>>, section |-> "None"]

\* One turn of the loop over the lines of the block.
SummaryStep(acc, line) ==
    IF line.kind = "blank" /\ acc.description_lines = <<>> /\ acc.section = "None" THEN acc
    ELSE IF line.kind = "header" THEN acc
    ELSE IF line.kind \in metadata_prefixes THEN acc
    ELSE IF line.kind = "acceptance" THEN [acc EXCEPT !.section = "acceptance"]
    ELSE IF acc.section = "acceptance"
        THEN IF line.kind = "checkbox"
                THEN [acc EXCEPT !.acceptance_lines = Append(@, Criterion(line))]
             ELSE IF line.kind = "text"
                THEN [acc EXCEPT !.acceptance_lines = Append(@, line)]
             ELSE IF line.kind = "bold" THEN [acc EXCEPT !.section = "None"]
             ELSE acc
    ELSE IF line.kind \in {"text", "checkbox"}
        THEN [acc EXCEPT !.description_lines = Append(@, line)]
    ELSE acc

RECURSIVE SummaryLoop(_, _)
\* for line in lines
SummaryLoop(acc, lines) ==
    IF lines = <<>> THEN acc
    ELSE SummaryLoop(SummaryStep(acc, Head(lines)), Tail(lines))

\* extract_human_summary(raw_block): the lines collected, and the text made
\* of them (the description, then "Criteria:" and the criteria).
extract_human_summary(raw_block) ==
    LET r == SummaryLoop(NoSummary, raw_block)
    IN  [description_lines |-> r.description_lines,
         acceptance_lines |-> r.acceptance_lines,
         text |-> r.description_lines
                    \o (IF r.acceptance_lines = <<>> THEN <<>>
                        ELSE <<BlankLine, NoteText(<<"Criteria:">>)>> \o r.acceptance_lines)]

\* No command has run.
NoOut == [cmd |-> "none", id |-> 0, status |-> <<>>, exit |-> 0, result |-> <<>>]

\* ------------------------------------------------------------ the tracker

\* Faulty variant: the tracker gives every new item the same id.
SameTrackerId(n) == Cardinality(IssueIds) + 1

\* The id the tracker gives its next new item (create_item's return value).
NextTrackerId(n) == Cardinality(IssueIds) + n + 1

\* The tracker after create_item: a new, active item for the issue.
RemoteCreate(rem, tid, id, status) ==
    With(rem, tid, [issue |-> id, status |-> status, archived |-> FALSE])

\* The tracker after update_status (change_column_value on the item).
RemoteUpdateStatus(rem, tid, status) ==
    IF tid \in DOMAIN rem /\ ~rem[tid].archived
    THEN [rem EXCEPT ![tid].status = status] ELSE rem

\* An archived item is inactive: its columns no longer matter.
ArchivedItem == [issue |-> 0, status |-> "", archived |-> TRUE]

\* The tracker after archive_item.
RemoteArchive(rem, tid) ==
    IF tid \in DOMAIN rem THEN [rem EXCEPT ![tid] = ArchivedItem] ELSE rem

Call(op, id, tid, status, description, outcome) ==
    [op |-> op, issue |-> id, tracker_id |-> tid, status |-> status,
     description |-> description, failed |-> outcome # "ok"]

\* How the next adapter call of a pass ends.  env.fail is the number of the
\* call that raises (0: none does).  _graphql raises with nothing done on the
\* tracker ("error"); create_item sends a second request (create_update) when
\* the description is not empty, and that one can raise after the first has
\* created the item ("error_applied").
Outcome(acc, env, op, description) ==
    IF Len(acc.calls) + 1 # env.fail THEN "ok"
    ELSE IF op = "create_item" /\ description # "" /\ env.applied THEN "error_applied"
    ELSE "error"

\* ------------------------------------------------------------- pass locals

ZeroTally == [created |-> 0, updated |-> 0, unchanged |-> 0, archived |-> 0, skipped |-> 0]

\* What a pass prints: the archived ids, the action of each issue, and the
\* lines of both loops in the order they are printed.
NoReport == [archived |-> <<>>, issues |-> <<>>, order |-> <<>>]

\* A line of a pass: what is done, and for which issue.
Line(action, issue_id) == [line |-> action, issue |-> issue_id]

NoPrev ==
    [kind |-> "none", report |-> NoReport, tally |-> ZeroTally, loaded |-> <<>>, streak |-> 0]

\* The locals of a pass as it starts: state = load_sync_state(issues_file),
\* the tallies zeroed; with them what the pass has done to the tracker.
Started(st, rem, n) ==
    [state |-> st, remote |-> rem, fresh |-> n, tally |-> ZeroTally, calls |-> <<>>,
     report |-> NoReport, raised |-> FALSE]

\* Faulty variant: the exception of an adapter call is swallowed.
RunningAfterError(acc) == TRUE

\* An adapter call has raised: sync and resync_descriptions catch nothing, so
\* no later statement of the pass runs.
Running(acc) == ~acc.raised

\* ------------------------------------------------------------------- sync

\* Faulty variant: no stored id is taken for an orphan.
NoOrphanIds(st, iss) == {}

\* orphaned = [iid for iid in list(state.keys()) if iid not in issue_ids]
OrphanIds(st, iss) == {iid \in DOMAIN st : iid \notin Ids(iss)}

\* The orders list(state.keys()) can give a set of keys.
Orders(S) ==
    {q \in SeqsUpTo(S, Cardinality(S)) :
        Len(q) = Cardinality(S) /\ {q[k] : k \in 1..Len(q)} = S}

\* archived += 1 and the line printed, in dry-run too.
CountArchived(acc, issue_id) ==
    [acc EXCEPT !.tally.archived = @ + 1,
                !.report.archived = Append(@, issue_id),
                !.report.order = Append(@, Line("archive", issue_id))]

\* Faulty variant: archived += 1 only where archive_item is called.
DryArchiveUncounted(acc, issue_id) ==
    [acc EXCEPT !.report.archived = Append(@, issue_id),
                !.report.order = Append(@, Line("archive", issue_id))]

\* The orphan loop in dry-run: the line is printed and the orphan counted.
DryArchive(acc, issue_id) == CountArchived(acc, issue_id)

\* Faulty variant: the entry of an archived orphan stays in the mapping.
StepArchiveKeepsEntry(acc, issue_id, env) ==
    LET tracker_item == acc.state[issue_id]
        o == Outcome(acc, env, "archive_item", "")
        called == [acc EXCEPT !.calls = Append(@, Call("archive_item", issue_id,
                                                tracker_item.tracker_id, "", "", o))]
    IN  IF env.dry_run THEN DryArchive(acc, issue_id)
        ELSE IF o # "ok" THEN [called EXCEPT !.raised = TRUE]
        ELSE CountArchived([called EXCEPT
                                !.remote = RemoteArchive(@, tracker_item.tracker_id)],
                           issue_id)

\* One turn of the orphan loop.
StepArchive(acc, issue_id, env) ==
    LET tracker_item == acc.state[issue_id]
        o == Outcome(acc, env, "archive_item", "")
        called == [acc EXCEPT !.calls = Append(@, Call("archive_item", issue_id,
                                                tracker_item.tracker_id, "", "", o))]
    IN  IF env.dry_run THEN DryArchive(acc, issue_id)
        ELSE IF o # "ok" THEN [called EXCEPT !.raised = TRUE]
        ELSE CountArchived([called EXCEPT
                                !.remote = RemoteArchive(@, tracker_item.tracker_id),
                                !.state = Without(@, issue_id)],
                           issue_id)

RECURSIVE ArchiveLoop(_, _, _)
\* for issue_id in orphaned
ArchiveLoop(acc, orphaned, env) ==
    IF orphaned = <<>> \/ ~Running(acc) THEN acc
    ELSE ArchiveLoop(StepArchive(acc, Head(orphaned), env), Tail(orphaned), env)

\* created += 1, updated += 1, unchanged += 1 and the line printed.
Counted(acc, field, action, issue_id) ==
    [acc EXCEPT !.tally[field] = @ + 1,
                !.report.issues = Append(@, action),
                !.report.order = Append(@, Line(action, issue_id))]

\* Faulty variant: a new entry records the default status, not the issue's.
CreatedEntryBacklog(tracker_id, normalized_status, summary_hash) ==
    Entry(tracker_id, "backlog", summary_hash)

\* The entry written for a new issue.
CreatedEntry(tracker_id, normalized_status, summary_hash) ==
    Entry(tracker_id, normalized_status, summary_hash)

\* tracker_item is None: the issue is created.
StepCreate(acc, issue, env) ==
    LET normalized_status == Normalize(issue.status)
        o == Outcome(acc, env, "create_item", issue.summary)
        tracker_id == NextTrackerId(acc.fresh)
        called == [acc EXCEPT !.calls = Append(@, Call("create_item", issue.id,
                                                IF o = "ok" THEN tracker_id ELSE 0,
                                                normalized_status, issue.summary, o))]
        made == [called EXCEPT
                    !.remote = RemoteCreate(@, tracker_id, issue.id, normalized_status),
                    !.fresh = @ + 1]
    IN  IF env.dry_run THEN Counted(acc, "created", "create", issue.id)
        ELSE IF o = "error" THEN [called EXCEPT !.raised = TRUE]
        ELSE IF o = "error_applied" THEN [made EXCEPT !.raised = TRUE]
        ELSE Counted([made EXCEPT !.state = With(@, issue.id,
                                        CreatedEntry(tracker_id, normalized_status,
                                                     Hash(issue.summary)))],
                     "created", "create", issue.id)

\* status_changed = tracker_item.get("last_status") != normalized_status
StatusChanged(tracker_item, normalized_status) ==
    tracker_item.last_status # normalized_status

\* desc_changed = tracker_item.get("description_hash") != summary_hash
DescChanged(tracker_item, summary_hash) == GetHash(tracker_item) # summary_hash

\* Faulty variant: the pushed status is not recorded.
StatusUpdatedEntryUnrecorded(tracker_item, normalized_status, summary_hash) == tracker_item

\* Faulty variant: the entry is written anew and the tracker_id is lost.
StatusUpdatedEntryRekeyed(tracker_item, normalized_status, summary_hash) ==
    Entry(0, normalized_status, summary_hash)

\* The entry after update_status returned: the status is recorded, a missing
\* hash is filled in.
StatusUpdatedEntry(tracker_item, normalized_status, summary_hash) ==
    LET e == [tracker_item EXCEPT !.last_status = normalized_status]
    IN  IF ~HasHash(e) THEN WithHash(e, summary_hash) ELSE e

\* status_changed: the status is pushed.
StepUpdateStatus(acc, issue, env) ==
    LET normalized_status == Normalize(issue.status)
        tracker_item == acc.state[issue.id]
        o == Outcome(acc, env, "update_status", "")
        called == [acc EXCEPT !.calls = Append(@, Call("update_status", issue.id,
                                                tracker_item.tracker_id,
                                                normalized_status, "", o))]
    IN  IF env.dry_run THEN Counted(acc, "updated", "status", issue.id)
        ELSE IF o # "ok" THEN [called EXCEPT !.raised = TRUE]
        ELSE Counted([called EXCEPT
                        !.remote = RemoteUpdateStatus(@, tracker_item.tracker_id,
                                                      normalized_status),
                        !.state[issue.id] = StatusUpdatedEntry(@, normalized_status,
                                                               Hash(issue.summary))],
                     "updated", "status", issue.id)

\* Faulty variant: the test for a recorded hash is left out.
PushesDescriptionUnguarded(tracker_item, summary) ==
    DescChanged(tracker_item, Hash(summary)) /\ summary # ""

\* elif desc_changed and summary and "description_hash" in tracker_item
PushesDescription(tracker_item, summary) ==
    /\ DescChanged(tracker_item, Hash(summary))
    /\ summary # ""
    /\ HasHash(tracker_item)

\* Faulty variant: the pushed description's hash is not recorded.
DescUpdatedEntryStale(tracker_item, summary_hash) == tracker_item

\* The entry after update_description returned.
DescUpdatedEntry(tracker_item, summary_hash) == WithHash(tracker_item, summary_hash)

\* The status is unchanged and the description differs from the one recorded.
StepUpdateDescription(acc, issue, env) ==
    LET tracker_item == acc.state[issue.id]
        o == Outcome(acc, env, "update_description", issue.summary)
        called == [acc EXCEPT !.calls = Append(@, Call("update_description", issue.id,
                                                tracker_item.tracker_id, "",
                                                issue.summary, o))]
    IN  IF env.dry_run THEN Counted(acc, "updated", "desc", issue.id)
        ELSE IF o # "ok" THEN [called EXCEPT !.raised = TRUE]
        ELSE Counted([called EXCEPT
                        !.state[issue.id] = DescUpdatedEntry(@, Hash(issue.summary))],
                     "updated", "desc", issue.id)

\* The entry of an issue with nothing to push: a missing hash is filled in.
BackfilledEntry(tracker_item, summary_hash) ==
    IF ~HasHash(tracker_item) THEN WithHash(tracker_item, summary_hash) ELSE tracker_item

\* Faulty variant: unchanged += 1 is left out.
StepUnchangedUncounted(acc, issue, env) ==
    [acc EXCEPT !.state[issue.id] = BackfilledEntry(@, Hash(issue.summary)),
                !.report.issues = Append(@, "unchanged"),
                !.report.order = Append(@, Line("unchanged", issue.id))]

\* else: nothing to push (this branch does not look at dry_run).
StepUnchanged(acc, issue, env) ==
    Counted([acc EXCEPT !.state[issue.id] = BackfilledEntry(@, Hash(issue.summary))],
            "unchanged", "unchanged", issue.id)

\* One turn of the issue loop: the if / elif / else on tracker_item.
StepIssue(acc, issue, env) ==
    IF issue.id \notin DOMAIN acc.state THEN StepCreate(acc, issue, env)
    ELSE IF StatusChanged(acc.state[issue.id], Normalize(issue.status))
        THEN StepUpdateStatus(acc, issue, env)
    ELSE IF PushesDescription(acc.state[issue.id], issue.summary)
        THEN StepUpdateDescription(acc, issue, env)
    ELSE StepUnchanged(acc, issue, env)

RECURSIVE IssueLoop(_, _, _)
\* for issue in issues
IssueLoop(acc, iss, env) ==
    IF iss = <<>> \/ ~Running(acc) THEN acc
    ELSE IssueLoop(StepIssue(acc, Head(iss), env), Tail(iss), env)

\* Faulty variant: the mapping is written also when an adapter call raises.
StoreSavedAfterError(disk, mem) == mem

\* The store on disk after an adapter call has raised: save_sync_state is the
\* last statement of a pass, so the file is not written.
StoreAfterError(disk, mem) == disk

\* Faulty variant: save_sync_state is never called.
SavedStoreNever(dr, disk, mem) == disk

\* Faulty variant: save_sync_state is called in dry-run too.
SavedStoreAlways(dr, disk, mem) == mem

\* The store on disk after a pass that ran to its end:
\* if not dry_run: save_sync_state(issues_file, state)
SavedStore(dr, disk, mem) == IF ~dr THEN mem ELSE disk

\* What the pass that just ended leaves for the next one to be compared with:
\* a dry-run its report, a sync that ran to its end the number of such passes
\* in a row (counted up to two), a sync that a failure ended after it had
\* created items the lines of those items.
Finished ==
    IF pc = "done" /\ mode = "sync" /\ dry_run
        THEN [kind |-> "dry", report |-> report, tally |-> tally, loaded |-> loaded,
              streak |-> 0]
    ELSE IF pc = "done" /\ mode = "sync"
        THEN [NoPrev EXCEPT !.kind = "clean",
                            !.streak = IF prev.streak = 0 THEN 1 ELSE 2]
    ELSE IF pc = "aborted" /\ mode = "sync" /\ tally.created > 0
        THEN [NoPrev EXCEPT
                !.kind = "aborted",
                !.report.order = SelectSeq(report.order, LAMBDA l : l.line = "create")]
    ELSE NoPrev

\* resync_descriptions with no stored state: it returns before its loop and
\* before save_sync_state.
ReturnsEarly(m, st) == m = "resync" /\ st = <<>>

\* The mapping of a pass that has not called load_sync_state.
NotRead == [read |-> FALSE]

\* get_adapter has raised: sync and resync_descriptions end before they
\* load the state, parse the document or call the adapter.
Refused(m, dr) ==
    /\ mode' = m
    /\ dry_run' = dr
    /\ pc' = "refused"
    /\ issues' = <<>>
    /\ loaded' = NotRead
    /\ state' = <<>>
    /\ tally' = ZeroTally
    /\ calls' = <<>>
    /\ report' = NoReport
    /\ prev' = NoPrev
    /\ UNCHANGED <<doc, config, store_file, store, remote, fresh, everFailed, devVars>>

\* A pass has run with the locals r at its end.
Ran(m, dr, r) ==
    /\ r.fresh <= MaxFresh
    /\ mode' = m
    /\ dry_run' = dr
    /\ issues' = doc
    /\ loaded' = load_sync_state(store_file, IssuesFile)
    /\ state' = r.state
    /\ remote' = r.remote
    /\ fresh' = r.fresh
    /\ tally' = r.tally
    /\ calls' = r.calls
    /\ report' = r.report
    /\ prev' = Finished
    /\ pc' = IF r.raised THEN "aborted" ELSE "done"
    /\ everFailed' = (everFailed \/ r.raised)
    /\ store_file' =
            LET written == save_sync_state(store_file, IssuesFile, r.state)
            IN  IF r.raised THEN StoreAfterError(store_file, written)
                ELSE IF ReturnsEarly(m, load_sync_state(store_file, IssuesFile))
                    THEN store_file
                ELSE SavedStore(dr, store_file, written)
    /\ store' = load_sync_state(store_file', IssuesFile)
    /\ UNCHANGED <<doc, config, devVars>>

\* Faulty variant: the orphans are archived after the issue loop.
SyncResultArchivesLast(st, iss, rem, n, orphaned, env) ==
    ArchiveLoop(IssueLoop(Started(st, rem, n), iss, env), orphaned, env)

\* sync(issues_file, dry_run)
SyncResult(st, iss, rem, n, orphaned, env) ==
    IssueLoop(ArchiveLoop(Started(st, rem, n), orphaned, env), iss, env)

\* The ways the adapter calls of a pass can end, given the calls it makes when
\* none raises: none raises, or one of them does.
Failures(made) ==
    {[fail |-> 0, applied |-> FALSE]}
        \cup {[fail |-> k, applied |-> FALSE] : k \in 1..Len(made)}
        \cup {[fail |-> k, applied |-> TRUE] :
                k \in {j \in 1..Len(made) : made[j].op = "create_item"}}

NoFailure(dr) == [dry_run |-> dr, fail |-> 0, applied |-> FALSE]

Sync ==
    \E dr \in BOOLEAN :
        IF AdapterError(config) # "none" THEN Refused("sync", dr)
        ELSE LET st == load_sync_state(store_file, IssuesFile)
             IN  \E orphaned \in Orders(OrphanIds(st, doc)) :
                    \E f \in Failures(SyncResult(st, doc, remote, fresh, orphaned,
                                                 NoFailure(dr)).calls) :
                        Ran("sync", dr,
                            SyncResult(st, doc, remote, fresh, orphaned,
                                       [dry_run |-> dr, fail |-> f.fail,
                                        applied |-> f.applied]))

\* ----------------------------------------------------------------- resync

\* Faulty variant: only an issue with no entry is skipped.
ResyncSkipsUntracked(st, issue) == issue.id \notin DOMAIN st

\* if not tracker_item, or if not summary: the issue is skipped.
ResyncSkips(st, issue) == issue.id \notin DOMAIN st \/ issue.summary = ""

\* One turn of resync's loop.
StepResync(acc, issue, env) ==
    LET o == Outcome(acc, env, "update_description", issue.summary)
        called == [acc EXCEPT !.calls = Append(@, Call("update_description", issue.id,
                                                acc.state[issue.id].tracker_id, "",
                                                issue.summary, o))]
    IN  IF ResyncSkips(acc.state, issue) THEN Counted(acc, "skipped", "skipped", issue.id)
        ELSE IF env.dry_run THEN Counted(acc, "updated", "resync", issue.id)
        ELSE IF o # "ok" THEN [called EXCEPT !.raised = TRUE]
        ELSE Counted([called EXCEPT
                        !.state[issue.id] = DescUpdatedEntry(@, Hash(issue.summary))],
                     "updated", "resync", issue.id)

RECURSIVE ResyncLoop(_, _, _)
ResyncLoop(acc, iss, env) ==
    IF iss = <<>> \/ ~Running(acc) THEN acc
    ELSE ResyncLoop(StepResync(acc, Head(iss), env), Tail(iss), env)

\* resync_descriptions(issues_file, dry_run); with no stored state it returns
\* before its loop (and saves nothing: there is nothing to save).
ResyncResult(st, iss, rem, n, env) ==
    IF st = <<>> THEN Started(st, rem, n)
    ELSE ResyncLoop(Started(st, rem, n), iss, env)

Resync ==
    \E dr \in BOOLEAN :
        IF AdapterError(config) # "none" THEN Refused("resync", dr)
        ELSE LET st == load_sync_state(store_file, IssuesFile)
             IN  \E f \in Failures(ResyncResult(st, doc, remote, fresh,
                                                NoFailure(dr)).calls) :
                    Ran("resync", dr,
                        ResyncResult(st, doc, remote, fresh,
                                     [dry_run |-> dr, fail |-> f.fail,
                                      applied |-> f.applied]))

\* ----------------------------------------------------------------- status

\* The line show_status prints for each issue; nothing but a notice when
\* there is no stored state.
StatusLines(st, iss) ==
    IF st = <<>> THEN <<>>
    ELSE [k \in 1..Len(iss) |-> IF iss[k].id \in DOMAIN st THEN "synced" ELSE "not synced"]

\* Faulty variant: the status mode gets an adapter first, as the others do.
ShowStatusWithAdapter ==
    IF AdapterError(config) # "none" THEN Refused("status", FALSE)
    ELSE /\ mode' = "status" /\ dry_run' = FALSE /\ pc' = "done"
         /\ issues' = doc
         /\ loaded' = load_sync_state(store_file, IssuesFile)
         /\ state' = load_sync_state(store_file, IssuesFile)
         /\ tally' = ZeroTally /\ calls' = <<>> /\ prev' = NoPrev
         /\ report' = [NoReport EXCEPT
                        !.issues = StatusLines(load_sync_state(store_file, IssuesFile), doc)]
         /\ UNCHANGED <<doc, config, store_file, store, remote, fresh, everFailed, devVars>>

\* show_status(issues_file)
ShowStatus ==
    /\ mode' = "status"
    /\ dry_run' = FALSE
    /\ pc' = "done"
    /\ issues' = doc
    /\ loaded' = load_sync_state(store_file, IssuesFile)
    /\ state' = load_sync_state(store_file, IssuesFile)
    /\ tally' = ZeroTally
    /\ calls' = <<>>
    /\ report' = [NoReport EXCEPT
                    !.issues = StatusLines(load_sync_state(store_file, IssuesFile), doc)]
    /\ prev' = NoPrev
    /\ UNCHANGED <<doc, config, store_file, store, remote, fresh, everFailed, devVars>>

\* ------------------------------------------------------------ behaviours

TypeOK ==
    /\ doc \in Docs
    /\ config \in Configs
    /\ store_file.exists \in BOOLEAN
    /\ DOMAIN store_file.all_state \subseteq Paths
    /\ store = load_sync_state(store_file, IssuesFile)
    /\ pc \in {"idle", "done", "aborted", "refused"}
    /\ mode \in {"sync", "resync", "status"}
    /\ dry_run \in BOOLEAN
    /\ fresh \in 0..MaxFresh

\* The state before the first run, for the given store files and
\* configurations.  The tracker holds the items the store has on record.
InitWith(files, configs) ==
    /\ doc \in Docs
    /\ config \in configs
    /\ store_file \in files
    /\ store = load_sync_state(store_file, IssuesFile)
    /\ remote = [t \in DOMAIN store |->
                    [issue |-> t, status |-> store[t].last_status, archived |-> FALSE]]
    /\ fresh = 0
    /\ pc = "idle"
    /\ mode = "sync"
    /\ dry_run = FALSE
    /\ issues = <<>>
    /\ loaded = <<>>
    /\ state = <<>>
    /\ tally = ZeroTally
    /\ calls = <<>>
    /\ report = NoReport
    /\ prev = NoPrev
    /\ everFailed = FALSE
    /\ content = <<>>
    /\ before = <<>>
    /\ out = NoOut

Init == InitWith(OwnStoreFiles, {GoodConfig})

\* The documents one edit away from d: a block's status or text is changed,
\* a block is removed, a block is added at the end.
Edits(d) ==
    UNION {{[d EXCEPT ![k] = r] : r \in {x \in IssueRecords : x.id = d[k].id}} :
                k \in 1..Len(d)}
        \cup {SubSeq(d, 1, k - 1) \o SubSeq(d, k + 1, Len(d)) : k \in 1..Len(d)}
        \cup {Append(d, r) : r \in {x \in IssueRecords : Len(d) < Cardinality(IssueIds)}}

\* The document is edited between two runs (what the run before has printed
\* is no longer on the screen).
EditDocument ==
    /\ ~everFailed
    /\ \E d \in Edits(doc) \ {doc} : doc' = d
    /\ pc' = "idle"
    /\ prev' = NoPrev
    /\ mode' = "sync" /\ dry_run' = FALSE
    /\ issues' = <<>> /\ loaded' = <<>> /\ state' = <<>>
    /\ tally' = ZeroTally /\ calls' = <<>> /\ report' = NoReport
    /\ UNCHANGED <<config, store_file, store, remote, fresh, everFailed, devVars>>

Next == Sync \/ Resync

\* Runs of the CLI on one document, from any stored state.
Spec == Init /\ [][Next]_vars

\* Nothing has been synced yet.
InitEmpty ==
    /\ Init
    /\ store = <<>>

\* A pass of a behaviour in which no adapter call has failed yet.
SyncUntilFailure == ~everFailed /\ Sync

ResyncUntilFailure == ~everFailed /\ Resync

NextEdits == SyncUntilFailure \/ ResyncUntilFailure \/ EditDocument

\* Runs of the CLI from an empty store, with the document edited between
\* runs, up to the first adapter call that fails.
SpecEdits == InitEmpty /\ [][NextEdits]_vars


\* The store file holds anything it can hold.
InitFiles == InitWith(StoreFiles, {GoodConfig})

\* Runs of the CLI in a project root that syncs other documents too.
SpecStore == InitFiles /\ [][Next]_vars

\* The configuration is anything .sync-config.json can hold.
InitCli == InitWith(OwnStoreFiles, Configs)

NextCli == Sync \/ Resync \/ ShowStatus

\* Runs of the CLI in any of its modes, under any configuration.
SpecCli == InitCli /\ [][NextCli]_vars

\* parse-issues.py update-status <file> <issue_id> <status>
UpdateStatus ==
    \E issue_id \in DevIds, new_status \in FiveStatuses :
        LET r == update_status(content, issue_id, new_status)
        IN  /\ \A k \in 1..Len(r.content) : Len(r.content[k].words) <= MaxWords
            /\ content' = r.content
            /\ before' = content
            /\ out' = [cmd |-> "update-status", id |-> issue_id, status |-> new_status,
                       exit |-> r.exit, result |-> <<>>]
            /\ UNCHANGED syncVars

\* parse-issues.py next <file>
FindNext ==
    /\ content' = content
    /\ before' = content
    /\ out' = [cmd |-> "next", id |-> 0, status |-> <<>>, exit |-> 0,
               result |-> find_next_issue(parse_issues(content))]
    /\ UNCHANGED syncVars

\* A document of the dev loop; sync-to-tracker has not run.
InitDevLoop ==
    /\ content \in DevDocs
    /\ before = content
    /\ out = NoOut
    /\ doc = <<>> /\ config = GoodConfig /\ store_file = NoStoreFile /\ store = <<>>
    /\ remote = <<>> /\ fresh = 0 /\ pc = "idle" /\ mode = "sync" /\ dry_run = FALSE
    /\ issues = <<>> /\ loaded = <<>> /\ state = <<>> /\ tally = ZeroTally
    /\ calls = <<>> /\ report = NoReport /\ prev = NoPrev /\ everFailed = FALSE

NextDevLoop == UpdateStatus \/ FindNext

\* Commands of parse-issues.py on one document, one after the other.
SpecDevLoop == InitDevLoop /\ [][NextDevLoop]_vars

\* parse-issues.py summary <file>: main parses the file and prints one line
\* per issue of the list.
ParseIssues ==
    /\ content' = content
    /\ before' = content
    /\ out' = [cmd |-> "summary", id |-> 0, status |-> <<>>, exit |-> 0,
               result |-> parse_issues(content)]
    /\ UNCHANGED syncVars

\* A well-formed document with Dev notes; sync-to-tracker has not run.
InitNotes ==
    /\ content \in NotesDocs
    /\ before = content
    /\ out = NoOut
    /\ doc = <<>> /\ config = GoodConfig /\ store_file = NoStoreFile /\ store = <<>>
    /\ remote = <<>> /\ fresh = 0 /\ pc = "idle" /\ mode = "sync" /\ dry_run = FALSE
    /\ issues = <<>> /\ loaded = <<>> /\ state = <<>> /\ tally = ZeroTally
    /\ calls = <<>> /\ report = NoReport /\ prev = NoPrev /\ everFailed = FALSE

\* parse-issues.py update-notes <file> <issue_id> <notes>
UpdateNotes ==
    \E issue_id \in DevIds, notes \in {<<"tried X">>} :
        LET r == update_dev_notes(content, issue_id, notes)
        IN  /\ Cardinality({k \in 1..Len(r.content) : r.content[k].words = notes})
                    <= MaxNotes
            /\ content' = r.content
            /\ before' = content
            /\ out' = [cmd |-> "update-notes", id |-> issue_id, status |-> <<>>,
                       exit |-> 0, result |-> notes]
            /\ UNCHANGED syncVars

\* update-notes commands on a well-formed document, one after the other.
SpecNotes == InitNotes /\ [][UpdateNotes]_vars

\* The parser applied to each well-formed document.
SpecParse == InitNotes /\ [][ParseIssues]_vars

\* extract_human_summary applied to the raw block of an issue, as sync and
\* resync_descriptions do for each issue.
ExtractSummary ==
    /\ content' = content
    /\ before' = content
    /\ out' = [cmd |-> "extract", id |-> 0, status |-> <<>>, exit |-> 0,
               result |-> <<extract_human_summary(content)>>]
    /\ UNCHANGED syncVars

\* A raw block; sync-to-tracker has made no call.
InitSummary ==
    /\ content \in SummaryBlocks
    /\ before = content
    /\ out = NoOut
    /\ doc = <<>> /\ config = GoodConfig /\ store_file = NoStoreFile /\ store = <<>>
    /\ remote = <<>> /\ fresh = 0 /\ pc = "idle" /\ mode = "sync" /\ dry_run = FALSE
    /\ issues = <<>> /\ loaded = <<>> /\ state = <<>> /\ tally = ZeroTally
    /\ calls = <<>> /\ report = NoReport /\ prev = NoPrev /\ everFailed = FALSE

\* The summary of each raw block.
SpecSummary == InitSummary /\ [][ExtractSummary]_vars

NextRetry == Sync \/ Resync \/ EditDocument

\* Runs of the CLI from an empty store: the document is edited between runs
\* until an adapter call fails, and the runs go on after the failure.
SpecRetry == InitEmpty /\ [][NextRetry]_vars


\* ------------------------------------------------------------------ claims

\* The adapter calls of the last pass that are about issue id.
CallsFor(id) == SelectSeq(calls, LAMBDA c : c.issue = id)

\* The last pass was a non-dry-run sync that ran to its end: no call raised.
SyncedClean == pc = "done" /\ mode = "sync" /\ ~dry_run

\* C1 (as stated): when a non-dry-run sync has run to its end and the document
\* (unique ids) is unchanged, the next sync pass makes no adapter call and
\* tallies 0 created, 0 updated, 0 archived.
C1_SecondSyncDoesNothing ==
    (pc # "idle" /\ mode = "sync" /\ prev.kind = "clean" /\ UniqueIds(issues))
        => /\ calls = <<>>
           /\ tally.created = 0 /\ tally.updated = 0 /\ tally.archived = 0

\* A tracked issue whose status and description have both changed.
BothChanged(k) ==
    LET issue == issues[k]
    IN  /\ issue.id \in DOMAIN loaded
        /\ loaded[issue.id].last_status # Normalize(issue.status)
        /\ GetHash(loaded[issue.id]) # Hash(issue.summary)

UpdateStatusOnly(k) ==
    CallsFor(issues[k].id) =
        <<Call("update_status", issues[k].id, loaded[issues[k].id].tracker_id,
               Normalize(issues[k].status), "", "ok")>>

\* C2 (as stated): for a tracked issue whose status and summary hash both
\* differ from the stored ones, a non-dry-run sync makes exactly one adapter
\* call, update_status, and the stored description_hash is then the hash of
\* the current summary.
C2_HashFollowsSummary ==
    (SyncedClean /\ UniqueIds(issues))
        => \A k \in 1..Len(issues) :
              BothChanged(k)
                  => /\ UpdateStatusOnly(k)
                     /\ GetHash(store[issues[k].id]) = Hash(issues[k].summary)

\* The active items the tracker holds for issue id.
Live(id) == {t \in DOMAIN remote : ~remote[t].archived /\ remote[t].issue = id}

\* C3: with no adapter call failed so far, right after a non-dry-run sync of a
\* document with unique ids every issue of the document has exactly one active
\* remote item, with the issue's normalized status, and no issue that is not
\* in the document has an active remote item.
C3_RemoteMirrorsDocument ==
    (SyncedClean /\ ~everFailed /\ UniqueIds(issues))
        => /\ \A k \in 1..Len(issues) :
                \E t \in DOMAIN remote :
                    /\ Live(issues[k].id) = {t}
                    /\ remote[t].status = Normalize(issues[k].status)
           /\ \A id \in IssueIds \ Ids(issues) : Live(id) = {}

C3_Witness ==
    /\ SyncedClean /\ ~everFailed /\ UniqueIds(issues)
    /\ Len(issues) = 2
    /\ fresh = MaxFresh
    /\ \E t \in DOMAIN remote : remote[t].archived

\* C4: when an adapter call fails, it is the last call of the pass and the
\* store on disk is what the pass loaded; a pass ends aborted exactly when one
\* of its calls failed.
C4_FailureEndsPass ==
    /\ (pc = "aborted") <=> (\E k \in 1..Len(calls) : calls[k].failed)
    /\ \A k \in 1..Len(calls) : calls[k].failed => k = Len(calls) /\ store = loaded

C4_Witness ==
    /\ pc = "aborted"
    /\ Len(calls) >= 2
    /\ Len(issues) = 2 /\ calls[Len(calls)].issue = issues[1].id
    /\ state # loaded

\* C5: a dry-run pass, sync or resync, makes no adapter call and leaves the
\* store on disk as it found it.
C5_DryRunChangesNothing ==
    (pc # "idle" /\ dry_run) => (calls = <<>> /\ store = loaded)

C5_Witness ==
    /\ pc = "done" /\ dry_run
    /\ state # loaded
    /\ tally.updated > 0

\* The set of the elements of a sequence.
Range(q) == {q[k] : k \in 1..Len(q)}

\* C6: a non-dry-run sync that runs to its end reports the same action for
\* every issue, archives the same ids and tallies the same counts as the
\* dry-run sync that ran just before it on the same document (unique ids) and
\* the same stored state.
C6_DryRunPredictsSync ==
    (SyncedClean /\ prev.kind = "dry" /\ prev.loaded = loaded /\ UniqueIds(issues))
        => /\ report.issues = prev.report.issues
           /\ Range(report.archived) = Range(prev.report.archived)
           /\ Len(report.archived) = Len(prev.report.archived)
           /\ tally = prev.tally

C6_Witness ==
    /\ SyncedClean /\ prev.kind = "dry" /\ prev.loaded = loaded /\ UniqueIds(issues)
    /\ tally.archived > 0
    /\ tally.created + tally.updated > 0

\* C7: in a non-dry-run sync that runs to its end, archive_item is called
\* exactly once with the tracker_id of every stored entry whose id is not in
\* the document, and the store then has no entry for that id.
C7_OrphansArchivedOnce ==
    SyncedClean
        => \A id \in DOMAIN loaded \ Ids(issues) :
              /\ Len(SelectSeq(calls, LAMBDA c : c.op = "archive_item"
                                    /\ c.tracker_id = loaded[id].tracker_id)) = 1
              /\ id \notin DOMAIN store

C7_Witness ==
    /\ SyncedClean
    /\ DOMAIN loaded \ Ids(issues) # {}
    /\ issues # <<>>

\* A tracked issue whose status is the stored one, whose summary is not empty
\* and whose stored description_hash is there and is not the summary's.
DescriptionChanged(k) ==
    LET issue == issues[k]
    IN  /\ issue.id \in DOMAIN loaded
        /\ loaded[issue.id].last_status = Normalize(issue.status)
        /\ issue.summary # ""
        /\ HasHash(loaded[issue.id])
        /\ loaded[issue.id].description_hash # Hash(issue.summary)

\* C8: for such an issue (in a document with unique ids) a non-dry-run sync
\* makes exactly one adapter call, update_description with the stored
\* tracker_id and the summary, and the stored description_hash becomes the
\* hash of the summary.
C8_DescriptionPushedOnce ==
    (SyncedClean /\ UniqueIds(issues))
        => \A k \in 1..Len(issues) :
              DescriptionChanged(k)
                  => /\ CallsFor(issues[k].id) =
                            <<Call("update_description", issues[k].id,
                                   loaded[issues[k].id].tracker_id, "",
                                   issues[k].summary, "ok")>>
                     /\ GetHash(store[issues[k].id]) = Hash(issues[k].summary)

C8_Witness ==
    /\ SyncedClean /\ UniqueIds(issues)
    /\ \E k \in 1..Len(issues) : DescriptionChanged(k)

\* A tracked issue whose stored entry has no description_hash.
Unhashed(k) == issues[k].id \in DOMAIN loaded /\ ~HasHash(loaded[issues[k].id])

\* C9: a sync pass never calls update_description for an issue whose stored
\* entry had no description_hash when the pass started; when the status of
\* such an issue is unchanged, a non-dry-run sync makes no adapter call for
\* it, tallies it as unchanged and stores the hash of its summary (documents
\* with unique ids).
C9_MissingHashBackfilled ==
    (pc # "idle" /\ mode = "sync" /\ UniqueIds(issues))
        => \A k \in 1..Len(issues) :
              Unhashed(k)
                  => /\ \A j \in 1..Len(calls) :
                            calls[j].issue = issues[k].id
                                => calls[j].op # "update_description"
                     /\ (SyncedClean
                           /\ loaded[issues[k].id].last_status = Normalize(issues[k].status))
                          => /\ CallsFor(issues[k].id) = <<>>
                             /\ report.issues[k] = "unchanged"
                             /\ tally.unchanged >= 1
                             /\ GetHash(store[issues[k].id]) = Hash(issues[k].summary)

C9_Witness ==
    /\ SyncedClean /\ UniqueIds(issues)
    /\ \E k \in 1..Len(issues) :
          /\ Unhashed(k)
          /\ loaded[issues[k].id].last_status = Normalize(issues[k].status)
          /\ issues[k].summary # ""

\* C10: after a non-dry-run sync of a document with unique ids has run to its
\* end, the store has an entry for every issue id of the document and for no
\* other id; every entry's last_status is the issue's normalized status, and
\* an entry created in the pass holds the tracker_id create_item returned for
\* that issue.
C10_StoreMatchesDocument ==
    (SyncedClean /\ UniqueIds(issues))
        => /\ DOMAIN store = Ids(issues)
           /\ \A k \in 1..Len(issues) :
                LET id == issues[k].id
                IN  /\ store[id].last_status = Normalize(issues[k].status)
                    /\ id \notin DOMAIN loaded
                         => /\ \E j \in 1..Len(calls) :
                                  /\ calls[j].op = "create_item"
                                  /\ calls[j].issue = id
                                  /\ calls[j].tracker_id = store[id].tracker_id
                            /\ store[id].tracker_id \in Live(id)

C10_Witness ==
    /\ SyncedClean /\ UniqueIds(issues)
    /\ loaded = <<>>
    /\ tally.created = 2
    /\ \E k \in 1..Len(issues) : Normalize(issues[k].status) = "done"

\* C11: starting from an empty store, no two entries of the store ever hold
\* the same tracker_id.
C11_TrackerIdsDistinct ==
    \A a, b \in DOMAIN store : store[a].tracker_id = store[b].tracker_id => a = b

C11_Witness ==
    /\ Cardinality(DOMAIN store) = 2
    /\ everFailed
    /\ fresh = MaxFresh

\* The tracker_id a pass has on record for the issue of its j-th call: the
\* one it loaded, or the one create_item returned earlier in the pass.
RecordedTrackerId(j) ==
    IF calls[j].issue \in DOMAIN loaded THEN {loaded[calls[j].issue].tracker_id}
    ELSE {calls[i].tracker_id : i \in {h \in 1..(j - 1) : /\ calls[h].op = "create_item"
                                                          /\ calls[h].issue = calls[j].issue
                                                          /\ ~calls[h].failed}}

\* C12: no step changes the tracker_id of a store entry whose id is in the
\* document, nor drops the entry; and every update_status or
\* update_description call is made with the tracker_id on record for its issue.
C12_TrackerIdStable ==
    /\ [][\A id \in DOMAIN store \cap Ids(doc) :
              /\ id \in DOMAIN store'
              /\ store'[id].tracker_id = store[id].tracker_id]_vars
    /\ [](\A j \in 1..Len(calls) :
              calls[j].op \in {"update_status", "update_description"}
                  => RecordedTrackerId(j) = {calls[j].tracker_id})

C12_Witness ==
    /\ pc = "done" /\ ~dry_run
    /\ \E j \in 1..Len(calls) :
          /\ calls[j].op = "update_status"
          /\ calls[j].issue \in DOMAIN loaded
          /\ calls[j].tracker_id > Cardinality(IssueIds)
    /\ \E j \in 1..Len(calls) : calls[j].op = "create_item"

\* The last pass was a non-dry-run resync that found a stored state and ran
\* to its end.
ResyncedClean == pc = "done" /\ mode = "resync" /\ ~dry_run /\ loaded # <<>>

\* The blocks of the document a resync pushes: a stored entry and a summary.
Repushed == {k \in 1..Len(issues) : issues[k].id \in DOMAIN loaded /\ issues[k].summary # ""}

\* C14: such a resync calls update_description once for every block with a
\* stored entry and a non-empty summary, with the entry's tracker_id and the
\* summary, whatever the stored status and hash, and makes no other call; the
\* other blocks are reported and tallied as skipped.
C14_ResyncPushesTracked ==
    ResyncedClean
        => /\ \A j \in 1..Len(calls) : calls[j].op = "update_description"
           /\ \A id \in IssueIds :
                Len(CallsFor(id)) = Cardinality({k \in Repushed : issues[k].id = id})
           /\ \A k \in Repushed :
                \E j \in 1..Len(calls) :
                    calls[j] = Call("update_description", issues[k].id,
                                    loaded[issues[k].id].tracker_id, "",
                                    issues[k].summary, "ok")
           /\ \A k \in 1..Len(issues) :
                report.issues[k] = IF k \in Repushed THEN "resync" ELSE "skipped"
           /\ tally.updated = Cardinality(Repushed)
           /\ tally.skipped = Len(issues) - Cardinality(Repushed)

C14_Witness ==
    /\ ResyncedClean
    /\ Len(issues) = 2
    /\ Cardinality(Repushed) = 1
    /\ \E k \in 1..Len(issues) : issues[k].id \notin DOMAIN loaded
    /\ \E k \in Repushed :
          /\ loaded[issues[k].id].last_status # Normalize(issues[k].status)
          /\ GetHash(loaded[issues[k].id]) = Hash(issues[k].summary)

\* C19: every status a sync pass hands to create_item or update_status is one
\* of the five normalized tokens.
C19_StatusesNormalized ==
    \A j \in 1..Len(calls) :
        calls[j].op \in {"create_item", "update_status"}
            => calls[j].status \in {"backlog", "ready", "in_progress", "in_review", "done"}

C19_Witness ==
    /\ SyncedClean
    /\ \E k \in 1..Len(issues) :
          /\ issues[k].status \notin {"Backlog", "Ready", "In Progress", "In Review", "Done"}
          /\ \E j \in 1..Len(calls) :
                /\ calls[j].issue = issues[k].id
                /\ calls[j].op = "update_status"
                /\ calls[j].status = "backlog"
    /\ \E j \in 1..Len(calls) : calls[j].op = "create_item" /\ calls[j].status = "done"

\* The store file has a mapping for path p.
Maps(file, p) == file.exists /\ p \in DOMAIN file.all_state

\* C13: no step changes, adds or drops the mapping the store file holds for
\* another path, and a pass that finds no store file, or none with a mapping
\* for its own path, loads the empty mapping.
C13_OtherPathsKept ==
    [][/\ \A p \in Paths \ {IssuesFile} :
            /\ Maps(store_file, p) <=> Maps(store_file', p)
            /\ Maps(store_file, p) => store_file'.all_state[p] = store_file.all_state[p]
       /\ ~Maps(store_file, IssuesFile) => loaded' = <<>>]_vars

C13_Witness ==
    /\ SyncedClean
    /\ loaded = <<>> /\ store # <<>>
    /\ Maps(store_file, OtherFile) /\ store_file.all_state[OtherFile] = OtherMapping
    /\ Maps(store_file, IssuesFile) /\ store_file.all_state[IssuesFile] = store

\* The configurations of the claim: the Monday adapter with its token or its
\* board missing or still the placeholder of the template, the GitHub adapter.
Broken(cfg) ==
    \/ cfg.tracker = "github"
    \/ /\ cfg.tracker = "monday"
       /\ \/ cfg.api_token \in {"", "YOUR_MONDAY_API_TOKEN"}
          \/ cfg.board_id \in {"", "YOUR_BOARD_ID"}

\* C18: under such a configuration a sync or resync run ends refused, with no
\* adapter call made, the store not loaded, and the store file and the
\* tracker as they were.
C18_BrokenConfigRefused ==
    [][(Broken(config) /\ mode' \in {"sync", "resync"})
          => /\ pc' = "refused"
             /\ calls' = <<>>
             /\ loaded' = NotRead
             /\ store_file' = store_file
             /\ remote' = remote /\ fresh' = fresh]_vars

C18_Witness ==
    /\ pc = "refused" /\ mode = "resync" /\ ~dry_run
    /\ config.tracker = "monday"
    /\ config.api_token = "secret" /\ config.board_id = "YOUR_BOARD_ID"
    /\ store # <<>> /\ doc # <<>>

\* C20: a run in status mode makes no adapter call and leaves the store
\* file, the document and the tracker as they were; it ends normally under
\* every configuration, as it constructs no adapter.
C20_StatusChangesNothing ==
    [][mode' = "status"
          => /\ pc' = "done"
             /\ calls' = <<>>
             /\ store_file' = store_file /\ store' = store
             /\ doc' = doc
             /\ remote' = remote /\ fresh' = fresh]_vars

C20_Witness ==
    /\ mode = "status" /\ pc = "done"
    /\ Broken(config)
    /\ \E k \in 1..Len(report.issues) : report.issues[k] = "synced"
    /\ \E k \in 1..Len(report.issues) : report.issues[k] = "not synced"

\* The issues of the document, as parse-issues.py reads them.
Parsed == parse_issues(content)

\* Issue k of the document is Ready and each of its dependency ids is the id
\* of an issue of the document whose status is Done.
Eligible(k) ==
    /\ Parsed[k].status = Ready
    /\ \A i \in 1..Len(Parsed[k].dependencies) :
            \E j \in 1..Len(Parsed) :
                Parsed[j].id = Parsed[k].dependencies[i] /\ Parsed[j].status = Done

\* C15: find_next_issue returns the first issue in document order whose status
\* is Ready and whose every dependency id belongs to an issue of the same
\* document with status Done, and None when there is no such issue; a
\* dependency id that is nowhere in the document makes the issue ineligible.
C15_NextIsFirstEligible ==
    out.cmd = "next" =>
        LET eligible == {k \in 1..Len(Parsed) : Eligible(k)}
        IN  /\ eligible = {} => out.result = <<>>
            /\ eligible # {} =>
                    \E k \in eligible :
                        /\ \A j \in eligible : k <= j
                        /\ out.result = <<Parsed[k]>>
            /\ \A k \in 1..Len(Parsed) :
                    (\E i \in 1..Len(Parsed[k].dependencies) :
                        \A j \in 1..Len(Parsed) : Parsed[j].id # Parsed[k].dependencies[i])
                        => out.result # <<Parsed[k]>>

\* The only Ready issue depends on ISSUE-2, which is nowhere in the document:
\* the command returns None.
C15_Witness ==
    /\ out.cmd = "next"
    /\ out.result = <<>>
    /\ Len(Parsed) = 2
    /\ Parsed[1].status = Ready
    /\ Parsed[1].dependencies = <<2>>
    /\ Parsed[2].id = 1
    /\ Parsed[2].status = Done

\* The header line, in the document before the command, of the issue the
\* update-status command names; 0 when no issue has that id.
TargetHeader == FirstHeader(before, out.id)

\* The last line of that issue's block.
TargetEnd ==
    LET sep == FirstAfter(before, TargetHeader, "sep")
    IN  IF sep = 0 THEN Len(before) ELSE sep - 1

\* The Status line of that issue's own block; 0 when the block has none.
OwnStatus ==
    IF TargetHeader = 0 THEN 0
    ELSE LET k == FirstAfter(before, TargetHeader, "status")
         IN  IF k > TargetEnd THEN 0 ELSE k

\* The place of that issue among the issues of the document (every block of
\* these documents has a header, so blocks and issues are counted alike).
TargetIssue == 1 + Cardinality({k \in 1..TargetHeader : before[k].kind = "sep"})

\* C16: for an issue that has a Status field, and old and new statuses among
\* the five statuses (the two-word ones included), update_status followed by
\* re-parsing yields the new status for that issue, and every other field of
\* every issue and all other text of the document is as it was.
C16_UpdateThenParse ==
    (/\ out.cmd = "update-status"
     /\ OwnStatus # 0
     /\ before[OwnStatus].words \in FiveStatuses
     /\ out.status \in FiveStatuses)
        => /\ out.exit = 0
           /\ parse_issues(content) =
                  [parse_issues(before) EXCEPT ![TargetIssue].status = out.status]
           /\ content = [before EXCEPT ![OwnStatus].words = out.status]

\* C17: update_status for an issue whose own block has no Status field ends
\* in a fatal error and leaves the document as it was, also when a later
\* block of the document has a Status field; update_status on one issue
\* never changes the status of another issue.
C17_NoStatusIsFatal ==
    out.cmd = "update-status" =>
        /\ (TargetHeader # 0 /\ OwnStatus = 0) => (out.exit = 1 /\ content = before)
        /\ \A k \in 1..Len(parse_issues(before)) :
                (TargetHeader = 0 \/ k # TargetIssue) =>
                    parse_issues(content)[k].status = parse_issues(before)[k].status

\* The header lines of the document, in document order.
HeaderLines == SelectSeq([k \in 1..Len(content) |-> k], LAMBDA k : content[k].kind = "header")

\* The lines of the block that header line h opens: up to the next separator.
BlockLines(h) ==
    LET sep == {k \in h..Len(content) : content[k].kind = "sep"}
    IN  {k \in h..Len(content) : \A j \in sep : k < j}

\* The value of the field of the kind in the block of header line h, or the
\* default when the block has no such line.
FieldOr(h, kind, default) ==
    LET found == {k \in BlockLines(h) : content[k].kind = kind}
    IN  IF found = {} THEN default
        ELSE LET k == CHOOSE i \in found : \A j \in found : i <= j
             IN  IF kind = "deps" THEN content[k].deps ELSE content[k].words

\* C21: parse_issues returns exactly one issue record per issue header of the
\* document, in document order, blocks with no header skipped; a record
\* whose block omits Status, Dependencies or Complexity has status Backlog,
\* an empty dependency list and complexity M.
C21_OneRecordPerHeader ==
    out.cmd = "summary" =>
        /\ Len(out.result) = Len(HeaderLines)
        /\ \A k \in 1..Len(HeaderLines) :
                /\ out.result[k].id = content[HeaderLines[k]].id
                /\ out.result[k].status = FieldOr(HeaderLines[k], "status", <<"Backlog">>)
                /\ out.result[k].dependencies = FieldOr(HeaderLines[k], "deps", <<>>)
                /\ out.result[k].complexity = FieldOr(HeaderLines[k], "complexity", <<"M">>)

\* A document with a preamble and two issues, the first with every field
\* omitted, the second with every field given, has been parsed.
C21_Witness ==
    /\ out.cmd = "summary"
    /\ content[1].kind = "text"
    /\ Len(out.result) = 2
    /\ out.result[1] = [id |-> 1, status |-> <<"Backlog">>, dependencies |-> <<>>,
                         complexity |-> <<"M">>]
    /\ out.result[2] = [id |-> 2, status |-> <<"Done">>, dependencies |-> <<1>>,
                         complexity |-> <<"L">>]
    /\ \A k \in 1..Len(content) : content[k].kind # "status" \/ k > HeaderLines[2]

\* The lines of the last pass that create or update (or would, in dry-run).
ActionLines == SelectSeq(report.order, LAMBDA l : l.line \in {"create", "status", "desc"})

\* The adapter calls of the last pass, the archive_item calls left out.
IssueCalls == SelectSeq(calls, LAMBDA c : c.op # "archive_item")

\* The ids q names are those of issues of the document, in document order.
InDocumentOrder(q) ==
    \E f \in [1..Len(q) -> 1..Len(issues)] :
        /\ \A j \in 1..Len(q) : issues[f[j]].id = q[j]
        /\ \A i, j \in 1..Len(q) : i < j => f[i] < f[j]

\* C22: within one sync pass every archive action (the archive_item call, or
\* its line in dry-run) comes before every create_item, update_status and
\* update_description action, and the create and update actions come in the
\* document order of their issues.
C22_ArchiveThenDocumentOrder ==
    (mode = "sync" /\ pc \in {"done", "aborted"}) =>
        /\ \A i, j \in 1..Len(calls) :
                (calls[j].op = "archive_item" /\ calls[i].op # "archive_item") => j < i
        /\ \A i, j \in 1..Len(report.order) :
                (report.order[j].line = "archive" /\ report.order[i].line # "archive")
                    => j < i
        /\ InDocumentOrder([j \in 1..Len(IssueCalls) |-> IssueCalls[j].issue])
        /\ InDocumentOrder([j \in 1..Len(ActionLines) |-> ActionLines[j].issue])

\* A pass has archived an orphan, then created the first issue and updated
\* the second.
C22_Witness ==
    /\ mode = "sync" /\ pc = "done" /\ ~dry_run
    /\ Len(calls) = 3
    /\ calls[1].op = "archive_item"
    /\ calls[2].op = "create_item"
    /\ calls[3].op = "update_status"
    /\ Len(ActionLines) = 2

\* The issues that the pass before the last one created before an adapter
\* call of that pass failed.
CreatedThenAborted ==
    IF prev.kind # "aborted" THEN {}
    ELSE {prev.report.order[k].issue :
            k \in {j \in 1..Len(prev.report.order) : prev.report.order[j].line = "create"}}

\* The items of the tracker for the issue that are not archived.
LiveItems(id) == {tid \in DOMAIN remote : ~remote[tid].archived /\ remote[tid].issue = id}

\* C23: if create_item succeeds for an issue in a sync pass and a later
\* adapter call of the same pass fails, the next sync pass on the same
\* document calls create_item again for that issue, so that two non-archived
\* remote items exist for one issue id.
C23_RetryCreatesDuplicate ==
    (mode = "sync" /\ ~dry_run /\ pc \in {"done", "aborted"}) =>
        \A id \in CreatedThenAborted :
            /\ CallsFor(id) # <<>> => CallsFor(id)[1].op = "create_item"
            /\ pc = "done" =>
                    /\ CallsFor(id) # <<>>
                    /\ ~CallsFor(id)[1].failed
                    /\ Cardinality(LiveItems(id)) >= 2

\* The pass before created ISSUE-1 and was then ended by a failure; the last
\* pass has run to its end and the tracker holds two items for ISSUE-1.
C23_Witness ==
    /\ mode = "sync" /\ ~dry_run /\ pc = "done"
    /\ 1 \in CreatedThenAborted
    /\ Cardinality(LiveItems(1)) = 2
    /\ Len(calls) = 2

\* The bold-labelled field lines: the metadata fields and any other field.
FieldKinds == {"status", "deps", "complexity", "notes", "bold"}

\* Line k of the block is in the acceptance section: a marker comes before
\* it with no field line in between.
InAcceptance(k) ==
    \E m \in 1..(k - 1) :
        /\ content[m].kind = "acceptance"
        /\ \A j \in (m + 1)..(k - 1) : content[j].kind \notin FieldKinds

\* The checkboxes and prose lines of the acceptance section, in order.
AcceptanceSection ==
    SelectSeq([k \in 1..Len(content) |-> k],
              LAMBDA k : content[k].kind \in {"checkbox", "text"} /\ InAcceptance(k))

\* C24: in extract_human_summary acceptance mode ends at the first
\* bold-labelled field line after the acceptance-criteria marker, also when
\* that line is a metadata field such as Dev notes or Status: no non-field
\* line that follows such a field line is added to the acceptance lines.
C24_FieldEndsAcceptance ==
    out.cmd = "extract" =>
        LET acceptance_lines == out.result[1].acceptance_lines
        IN  /\ Len(acceptance_lines) = Len(AcceptanceSection)
            /\ \A k \in 1..Len(acceptance_lines) :
                    LET line == content[AcceptanceSection[k]]
                    IN  acceptance_lines[k].words[Len(line.words)]
                            = line.words[Len(line.words)]

\* The Dev notes line of the own block of the issue the command names; 0
\* when the block has none.
OwnNotes ==
    IF TargetHeader = 0 THEN 0
    ELSE LET k == FirstAfter(before, TargetHeader, "notes")
         IN  IF k > TargetEnd THEN 0 ELSE k

\* The content of the Dev notes field that starts on line n of q and ends
\* with line end: the text after the label and the lines below it, without
\* the empty lines at either end.
FieldContent(q, n, end) ==
    LET text == {k \in n..end : IF k = n THEN q[n].words # <<>> ELSE q[k].kind # "blank"}
        low == CHOOSE k \in text : \A j \in text : k <= j
        high == CHOOSE k \in text : \A j \in text : j <= k
    IN  IF text = {} THEN <<>>
        ELSE [k \in 1..(high - low + 1) |->
                IF low + k - 1 = n THEN NoteText(q[n].words) ELSE q[low + k - 1]]

\* The last line of the issue's block after the command.
EndAfter ==
    LET sep == FirstAfter(content, TargetHeader, "sep")
    IN  IF sep = 0 THEN Len(content) ELSE sep - 1

\* C25: update_dev_notes on an issue whose block has a Dev notes field puts
\* the new note in the place of the field's content when that content is
\* empty or the placeholder, and otherwise sets the field to the content, a
\* line end and the new note; when the issue's own block has no Dev notes
\* field the document is left as it was and the call does not fail.
C25_NotesAppended ==
    out.cmd = "update-notes" =>
        /\ out.exit = 0
        /\ (TargetHeader # 0 /\ OwnNotes = 0) => content = before
        /\ OwnNotes # 0 =>
                LET existing == FieldContent(before, OwnNotes, TargetEnd)
                IN  FieldContent(content, OwnNotes, EndAfter) =
                        IF existing \in {<<>>, <<NoteText(Placeholder)>>}
                            THEN <<NoteText(out.result)>>
                        ELSE Append(existing, NoteText(out.result))

\* The two passes before the last one were non-dry-run syncs of the document
\* as it is now, and both ran to their end.
TwoCleanPasses == prev.kind = "clean" /\ prev.streak = 2

\* C26: for an unchanged document with unique issue ids and any well-formed
\* stored state, after two failure-free non-dry-run sync passes in a row a
\* third sync pass makes no adapter call (and, in dry-run, announces none).
C26_FixedPointInTwoPasses ==
    (pc # "idle" /\ mode = "sync" /\ TwoCleanPasses /\ UniqueIds(issues))
        => /\ calls = <<>>
           /\ tally.created = 0 /\ tally.updated = 0 /\ tally.archived = 0

\* A third pass over two issues, on a store whose entry for ISSUE-1 was
\* written with a hash and is still the one the passes before left.
C26_Witness ==
    /\ pc = "done" /\ mode = "sync" /\ ~dry_run
    /\ TwoCleanPasses
    /\ UniqueIds(issues) /\ Len(issues) = 2
    /\ tally.unchanged = 2
    /\ calls = <<>>

\* An archive_item call of an earlier pass has archived the item.
AlreadyArchived(tid) == tid \in DOMAIN remote /\ remote[tid].archived

\* The pass that this step runs calls archive_item only for items that no
\* earlier pass has archived, and once for each.
ArchivesOnlyOnce ==
    \A k \in 1..Len(calls') :
        calls'[k].op = "archive_item" =>
            /\ ~AlreadyArchived(calls'[k].tracker_id)
            /\ \A j \in 1..Len(calls') :
                    (calls'[j].op = "archive_item"
                        /\ calls'[j].tracker_id = calls'[k].tracker_id) => j = k

C28_TalliesAddUp ==
    (mode = "sync" /\ pc = "done") =>
        /\ tally.created + tally.updated + tally.unchanged = Len(issues)
        /\ tally.archived = Cardinality(DOMAIN loaded \ Ids(issues))

\* A pass over two blocks with an orphan in the store: one archived, one
\* block with something to push, one with nothing.
C28_Witness ==
    /\ mode = "sync" /\ pc = "done"
    /\ Len(issues) = 2
    /\ tally.archived = 1
    /\ tally.unchanged = 1
    /\ tally.created + tally.updated = 1

====
